---- MODULE Spec2Model ----
(***************************************************************************)
(* Model of iati3w-data: the common name-resolution helpers               *)
(* (iati3w_common.py) and the location index builder (index-locations.py).*)
(*                                                                         *)
(* Strings are sequences of one-character strings, so that strip,          *)
(* normalise_string and make_token are computed character by character.   *)
(* Python's None is the distinguished value None below.                    *)
(***************************************************************************)
EXTENDS Naturals, Sequences, FiniteSets, TLC

VARIABLES
    pc,                     \* index-locations.py: position of the script
    activities,             \* index-locations.py: the activities consumed so far, in input order
    index,                  \* index-locations.py: the global index
    output,                 \* what the script printed on stdout
    stderr,                 \* the lines written to sys.stderr, in order
    orgMap,                 \* content of inputs/org-map.json (ordered key/info pairs)
    locMap,                 \* content of inputs/location-map.json (ordered, nested)
    storage,                \* path -> whether json.load(open(path)) succeeds
    datasets_loaded,        \* iati3w_common.datasets_loaded
    lookup_tables_loaded,   \* iati3w_common.lookup_tables_loaded
    location_lookup_table,  \* iati3w_common.location_lookup_table
    stamps,                 \* the admin1/admin2 fields written into loaded location entries
    calls,                  \* the calls made so far, with what each returned
    reads,                  \* path -> number of times the file was read and parsed
    builds                  \* table -> number of times its construction was started

vars == <<pc, activities, index, output, stderr, orgMap, locMap, storage,
          datasets_loaded, lookup_tables_loaded, location_lookup_table,
          stamps, calls, reads, builds>>

aggVars == <<pc, activities, index, output>>
envVars == <<orgMap, locMap, storage>>
libVars == <<datasets_loaded, lookup_tables_loaded, location_lookup_table,
             stamps, calls, reads, builds>>

(***************************************************************************)
(* Bounds                                                                  *)
(***************************************************************************)
MaxActivities == 2
MaxCalls == 2
MaxTableCalls == 1

(***************************************************************************)
(* Keys for classifying things                                             *)
(***************************************************************************)
ROLES == <<"implementing", "programming", "funding">>
SECTOR_TYPES == <<"dac", "humanitarian">>
LOCATION_TYPES == <<"admin1", "admin2", "unclassified">>

Range(s) == {s[i] : i \in 1..Len(s)}

(***************************************************************************)
(* Values and characters                                                   *)
(***************************************************************************)
None == <<"None">>

SpaceChars == {" ", "\t"}
WordChars == {"a", "b", "c", "A", "B", "C", "_", "1"}
PunctChars == {"-", "."}
Alphabet == SpaceChars \cup WordChars \cup PunctChars
NonWordChars == Alphabet \ WordChars

LowerChar(c) ==
    CASE c = "A" -> "a"
      [] c = "B" -> "b"
      [] c = "C" -> "c"
      [] OTHER -> c

lower(s) == [i \in 1..Len(s) |-> LowerChar(s[i])]

\* Python truthiness of a str-or-None value: "not s"
Falsy(s) == s = None \/ s = <<>>

\* hxl.datatypes.is_empty: None, '' and whitespace-only are empty
is_empty(s) == s = None \/ s = <<>> \/ \A i \in 1..Len(s) : s[i] \in SpaceChars

RECURSIVE DropWhile(_, _)
DropWhile(class, s) ==
    IF s = <<>> \/ Head(s) \notin class THEN s ELSE DropWhile(class, Tail(s))

RECURSIVE DropWhileEnd(_, _)
DropWhileEnd(class, s) ==
    IF s = <<>> \/ s[Len(s)] \notin class THEN s
    ELSE DropWhileEnd(class, SubSeq(s, 1, Len(s) - 1))

\* str.strip()
strip(s) == DropWhileEnd(SpaceChars, DropWhile(SpaceChars, s))

\* re.sub(class+, ' ', s): every maximal run of characters of class becomes one space
RECURSIVE SubRuns(_, _)
SubRuns(class, s) ==
    IF s = <<>> THEN <<>>
    ELSE IF Head(s) \in class
         THEN <<" ">> \o SubRuns(class, DropWhile(class, Tail(s)))
         ELSE <<Head(s)>> \o SubRuns(class, Tail(s))

normalise_string(s) ==
    IF Falsy(s) THEN None ELSE SubRuns(SpaceChars, strip(s))

make_token(s) == strip(lower(SubRuns(NonWordChars, s)))

(***************************************************************************)
(* dict helpers                                                            *)
(***************************************************************************)
EmptyMap == <<>>

Put(m, k, v) == [x \in (DOMAIN m) \cup {k} |-> IF x = k THEN v ELSE m[x]]

SetDefault(m, k, v) == IF k \in DOMAIN m THEN m ELSE Put(m, k, v)

Get(m, k, d) == IF k \in DOMAIN m THEN m[k] ELSE d

(***************************************************************************)
(* index-locations.py                                                      *)
(***************************************************************************)

\* for x in list: if not x: continue; x = x.strip(); counter.setdefault(x, 0); counter[x] += 1
RECURSIVE CountInto(_, _)
CountInto(counter, list) ==
    IF list = <<>> THEN counter
    ELSE LET raw == Head(list) IN
         IF Falsy(raw) THEN CountInto(counter, Tail(list))
         ELSE LET k == strip(raw)
                  c == SetDefault(counter, k, 0)
              IN  CountInto(Put(c, k, c[k] + 1), Tail(list))

\* for role in ROLES: for org in activity["orgs"].get(role, []): ...
RECURSIVE AddOrgs(_, _, _)
AddOrgs(orgs, activity, roles) ==
    IF roles = <<>> THEN orgs
    ELSE AddOrgs(CountInto(orgs, Get(activity.orgs, Head(roles), <<>>)),
                 activity, Tail(roles))

\* for type in SECTOR_TYPES: entry["sectors"].setdefault(type, {}); for sector in ...
RECURSIVE AddSectors(_, _, _)
AddSectors(sectors, activity, types) ==
    IF types = <<>> THEN sectors
    ELSE LET type == Head(types)
             s == SetDefault(sectors, type, EmptyMap)
         IN  AddSectors(
                 Put(s, type, CountInto(s[type], Get(activity.sectors, type, <<>>))),
                 activity, Tail(types))

\* faulty variant: the key is the lookup token of the raw location
LocationKeyTokenized(location) == make_token(location)

\* the key under which a raw location is indexed
LocationKey(location) == strip(location)

\* the item appended to entry["activities"]
ActivityItem(activity) ==
    [identifier |-> activity.identifier,
     title      |-> activity.title,
     source     |-> activity.source]

NewEntry == [activities |-> <<>>, orgs |-> EmptyMap, sectors |-> EmptyMap]

\* one iteration of the location loop on index[loctype]
AddLocation(byLoc, activity, location) ==
    IF Falsy(location) THEN byLoc
    ELSE LET key == LocationKey(location)
             m == SetDefault(byLoc, key, NewEntry)
             entry == m[key]
         IN  Put(m, key,
                 [activities |-> Append(entry.activities, ActivityItem(activity)),
                  orgs       |-> AddOrgs(entry.orgs, activity, ROLES),
                  sectors    |-> AddSectors(entry.sectors, activity, SECTOR_TYPES)])

RECURSIVE AddLocations(_, _, _)
AddLocations(byLoc, activity, locations) ==
    IF locations = <<>> THEN byLoc
    ELSE AddLocations(AddLocation(byLoc, activity, Head(locations)),
                      activity, Tail(locations))

\* for loctype in LOCATION_TYPES: index.setdefault(loctype, {}); for location in ...
RECURSIVE AddLocTypes(_, _, _)
AddLocTypes(idx, activity, loctypes) ==
    IF loctypes = <<>> THEN idx
    ELSE LET loctype == Head(loctypes)
             i == SetDefault(idx, loctype, EmptyMap)
         IN  AddLocTypes(
                 Put(i, loctype,
                     AddLocations(i[loctype], activity,
                                  Get(activity.locations, loctype, <<>>))),
                 activity, Tail(loctypes))


(***************************************************************************)
(* iati3w_common.py: datasets and lookup tables                            *)
(*                                                                         *)
(* A dataset is the ordered sequence of [key, info] pairs of a JSON        *)
(* object; info is a record holding only the fields the file gives.       *)
(* Entries are shared by reference: a table maps a token to the path of    *)
(* the entry in its dataset (<<r>> region or org, <<r, d>> district,       *)
(* <<r, d, k>> site), and the fields the location table construction       *)
(* writes into the loaded entries are kept in stamps.                      *)
(***************************************************************************)
ORG_PATH == <<"inputs/org-map.json">>
LOC_PATH == <<"inputs/location-map.json">>
Paths == {ORG_PATH, LOC_PATH}
LOCATION == <<"location_lookup_table">>

\* location_lookup_table is None, or a dict
NotBuilt == <<>>
Built(t) == <<t>>

FileContent(path) == IF path = ORG_PATH THEN orgMap ELSE locMap

\* the module's globals, as one value
Lib ==
    [ds  |-> datasets_loaded,
     lt  |-> lookup_tables_loaded,
     loc |-> location_lookup_table,
     st  |-> stamps,
     rd  |-> reads,
     bd  |-> builds,
     err |-> stderr]

Bump(counter, k) == Put(counter, k, Get(counter, k, 0) + 1)

\* faulty variant: get_dataset without the "if not path in datasets_loaded" test
get_dataset_unmemoized(L, path) ==
    IF storage[path] = "ok"
    THEN [lib |-> [L EXCEPT !.ds = Put(@, path, FileContent(path)),
                            !.rd = Bump(@, path)],
          raised |-> FALSE]
    ELSE [lib |-> L, raised |-> TRUE]

get_dataset(L, path) ==
    IF path \in DOMAIN L.ds THEN [lib |-> L, raised |-> FALSE]
    ELSE IF storage[path] = "ok"
         THEN [lib |-> [L EXCEPT !.ds = Put(@, path, FileContent(path)),
                                 !.rd = Bump(@, path)],
               raised |-> FALSE]
         ELSE [lib |-> L, raised |-> TRUE]

\* for synonym in synonyms: table.setdefault(make_token(synonym), ref)
RECURSIVE AddSynonyms(_, _, _)
AddSynonyms(t, synonyms, ref) ==
    IF synonyms = <<>> THEN t
    ELSE AddSynonyms(SetDefault(t, make_token(Head(synonyms)), ref),
                     Tail(synonyms), ref)

\* faulty variant: the top-level key is inserted only if its token is absent
InsertKeyIfAbsent(t, key, ref) == SetDefault(t, make_token(key), ref)

\* result[make_token(key)] = info
InsertKey(t, key, ref) == Put(t, make_token(key), ref)

\* the body of get_lookup_table's loop, from entry i on
RECURSIVE BuildTable(_, _, _)
BuildTable(t, map, i) ==
    IF i > Len(map) THEN t
    ELSE LET info == map[i].info
             t1 == InsertKey(t, map[i].key, <<i>>)
             t2 == IF "name" \in DOMAIN info
                   THEN SetDefault(t1, make_token(info.name), <<i>>)
                   ELSE t1
             t3 == AddSynonyms(t2, Get(info, "synonyms", <<>>), <<i>>)
         IN  BuildTable(t3, map, i + 1)

get_lookup_table(L, path) ==
    IF path \in DOMAIN L.lt THEN [lib |-> L, raised |-> FALSE]
    ELSE LET d == get_dataset(L, path) IN
         IF d.raised THEN d
         ELSE [lib |-> [d.lib EXCEPT
                           !.lt = Put(@, path, BuildTable(EmptyMap, d.lib.ds[path], 1)),
                           !.bd = Bump(@, path)],
               raised |-> FALSE]

(***************************************************************************)
(* What a call returns                                                     *)
(***************************************************************************)
Ret(kind, ref, name, tag, table) ==
    [kind |-> kind, ref |-> ref, name |-> name, tag |-> tag, table |-> table]

RetNone == Ret("None", <<>>, <<>>, "", <<>>)
RetRaise == Ret("raise", <<>>, <<>>, "", <<>>)
RetEntry(ref) == Ret("entry", ref, <<>>, "", <<>>)
\* {"name": name, "scope": tag} or {"level": tag, "name": name}
RetFallback(name, tag) == Ret("fallback", <<>>, name, tag, <<>>)
RetTable(t) == Ret("table", <<>>, <<>>, "", <<t>>)
RetDataset == Ret("dataset", <<>>, <<>>, "", <<>>)

\* faulty variant: a failed lookup is remembered in the table
lookup_org_caching(L, name) ==
    IF name = None THEN [lib |-> L, ret |-> RetNone]
    ELSE IF is_empty(name) THEN [lib |-> L, ret |-> RetNone]
    ELSE LET token == make_token(name)
             g == get_lookup_table(L, ORG_PATH)
         IN  IF g.raised THEN [lib |-> g.lib, ret |-> RetRaise]
             ELSE IF token \in DOMAIN g.lib.lt[ORG_PATH]
                  THEN [lib |-> g.lib, ret |-> RetEntry(g.lib.lt[ORG_PATH][token])]
                  ELSE [lib |-> [g.lib EXCEPT
                                    !.err = Append(@, <<"Failed lookup", token>>),
                                    !.lt = Put(@, ORG_PATH,
                                               Put(g.lib.lt[ORG_PATH], token, <<0>>))],
                        ret |-> RetFallback(normalise_string(name), "unknown")]

lookup_org(L, name) ==
    IF name = None THEN [lib |-> L, ret |-> RetNone]
    ELSE IF is_empty(name) THEN [lib |-> L, ret |-> RetNone]
    ELSE LET token == make_token(name)
             g == get_lookup_table(L, ORG_PATH)
         IN  IF g.raised THEN [lib |-> g.lib, ret |-> RetRaise]
             ELSE IF token \in DOMAIN g.lib.lt[ORG_PATH]
                  THEN [lib |-> g.lib, ret |-> RetEntry(g.lib.lt[ORG_PATH][token])]
                  ELSE [lib |-> [g.lib EXCEPT
                                    !.err = Append(@, <<"Failed lookup", token>>)],
                        ret |-> RetFallback(normalise_string(name), "unknown")]

(***************************************************************************)
(* iati3w_common.py: the hierarchical location table                       *)
(*                                                                         *)
(* The construction threads [t: the table so far, st: the stamps so far,   *)
(* ok: no KeyError yet]; after a KeyError nothing more is done.            *)
(***************************************************************************)

\* faulty variant: a site key overwrites the token's earlier mapping
InsertSiteOverwriting(t, name3, ref) == Put(t, make_token(name3), ref)

\* location_lookup_table.setdefault(token3, info3)
InsertSite(t, name3, ref) == SetDefault(t, make_token(name3), ref)

\* for name3, info3 in info2.get("unclassified", {}).items()
RECURSIVE SiteLoop(_, _, _, _, _, _, _)
SiteLoop(S, sites, k, r, d, name1, info2) ==
    IF ~S.ok \/ k > Len(sites) THEN S
    ELSE LET info3 == sites[k].info
             ref == <<r, d, k>>
             st1 == Put(S.st, ref, [admin1 |-> name1])
         IN  IF "name" \notin DOMAIN info2
             THEN [S EXCEPT !.st = st1, !.ok = FALSE]
             ELSE LET st2 == Put(st1, ref, [admin1 |-> name1, admin2 |-> info2.name])
                      t1 == InsertSite(S.t, sites[k].key, ref)
                      t2 == AddSynonyms(t1, Get(info3, "synonyms", <<>>), ref)
                  IN  SiteLoop([t |-> t2, st |-> st2, ok |-> TRUE],
                               sites, k + 1, r, d, name1, info2)

\* for name2, info2 in info1.get("admin2", {}).items()
RECURSIVE DistrictLoop(_, _, _, _, _)
DistrictLoop(S, districts, d, r, info1) ==
    IF ~S.ok \/ d > Len(districts) THEN S
    ELSE LET info2 == districts[d].info
             ref == <<r, d>>
         IN  IF "name" \notin DOMAIN info1
             THEN [S EXCEPT !.ok = FALSE]
             ELSE LET st1 == Put(S.st, ref, [admin1 |-> info1.name])
                      t1 == SetDefault(S.t, make_token(districts[d].key), ref)
                      S2 == SiteLoop([t |-> t1, st |-> st1, ok |-> TRUE],
                                     Get(info2, "unclassified", <<>>),
                                     1, r, d, info1.name, info2)
                  IN  IF ~S2.ok THEN S2
                      ELSE DistrictLoop(
                               [S2 EXCEPT !.t = AddSynonyms(
                                   @, Get(info2, "synonyms", <<>>), ref)],
                               districts, d + 1, r, info1)

\* for name1, info1 in map.items()
RECURSIVE RegionLoop(_, _, _)
RegionLoop(S, map, r) ==
    IF ~S.ok \/ r > Len(map) THEN S
    ELSE LET info1 == map[r].info
             t1 == Put(S.t, make_token(map[r].key), <<r>>)
             S2 == DistrictLoop([S EXCEPT !.t = t1],
                                Get(info1, "admin2", <<>>), 1, r, info1)
         IN  IF ~S2.ok THEN S2
             ELSE RegionLoop(
                      [S2 EXCEPT !.t = AddSynonyms(
                          @, Get(info1, "synonyms", <<>>), <<r>>)],
                      map, r + 1)

get_location_lookup_table(L) ==
    IF L.loc # NotBuilt THEN [lib |-> L, raised |-> FALSE]
    ELSE LET L1 == [L EXCEPT !.loc = Built(EmptyMap), !.bd = Bump(@, LOCATION)]
             d == get_dataset(L1, LOC_PATH)
         IN  IF d.raised THEN d
             ELSE LET S == RegionLoop([t |-> EmptyMap, st |-> d.lib.st, ok |-> TRUE],
                                      d.lib.ds[LOC_PATH], 1)
                  IN  [lib |-> [d.lib EXCEPT !.loc = Built(S.t), !.st = S.st],
                       raised |-> ~S.ok]

lookup_location(L, name, loctype) ==
    IF is_empty(name) THEN [lib |-> L, ret |-> RetNone]
    ELSE LET g == get_location_lookup_table(L) IN
         IF g.raised THEN [lib |-> g.lib, ret |-> RetRaise]
         ELSE LET t == g.lib.loc[1]
                  token == make_token(name)
              IN  [lib |-> g.lib,
                   ret |-> IF token \in DOMAIN t THEN RetEntry(t[token])
                           ELSE RetFallback(normalise_string(name), loctype)]

(***************************************************************************)
(* Calls into iati3w_common                                                *)
(***************************************************************************)
\* how many calls the driver makes
CallBound == IF pc = "library" THEN MaxCalls ELSE MaxTableCalls

Returns(lib, fn, arg, opt, ret) ==
    /\ datasets_loaded' = lib.ds
    /\ lookup_tables_loaded' = lib.lt
    /\ location_lookup_table' = lib.loc
    /\ stamps' = lib.st
    /\ reads' = lib.rd
    /\ builds' = lib.bd
    /\ stderr' = lib.err
    /\ calls' = Append(calls, [fn |-> fn, arg |-> arg, opt |-> opt, ret |-> ret])
    /\ UNCHANGED <<aggVars, envVars>>

CallGetDataset(path) ==
    /\ Len(calls) < CallBound
    /\ LET g == get_dataset(Lib, path) IN
       Returns(g.lib, "get_dataset", path, "",
               IF g.raised THEN RetRaise ELSE RetDataset)

CallGetLookupTable(path) ==
    /\ Len(calls) < CallBound
    /\ LET g == get_lookup_table(Lib, path) IN
       Returns(g.lib, "get_lookup_table", path, "",
               IF g.raised THEN RetRaise ELSE RetTable(g.lib.lt[path]))

CallLookupOrg(name) ==
    /\ Len(calls) < CallBound
    /\ LET g == lookup_org(Lib, name) IN
       Returns(g.lib, "lookup_org", name, "", g.ret)

CallGetLocationLookupTable ==
    /\ Len(calls) < CallBound
    /\ LET g == get_location_lookup_table(Lib) IN
       Returns(g.lib, "get_location_lookup_table", <<>>, "",
               IF g.raised THEN RetRaise ELSE RetTable(g.lib.loc[1]))

CallLookupLocation(name, loctype) ==
    /\ Len(calls) < CallBound
    /\ LET g == lookup_location(Lib, name, loctype) IN
       Returns(g.lib, "lookup_location", name, loctype, g.ret)


(***************************************************************************)
(* The reference datasets and the calls made on the library                *)
(***************************************************************************)
Entry(key, info) == [key |-> key, info |-> info]

OrgMapsSmall ==
    { << Entry(<<"a">>, [name |-> <<"A">>, scope |-> "local",
                         synonyms |-> << <<"b", "-">> >>]),
         Entry(<<"B">>, [name |-> <<"b", " ", "c">>, scope |-> "regional"]) >>,
      << Entry(<<"-">>, [scope |-> "local"]) >> }

LocMapsSmall ==
    { \* well formed; the second region's key has the token of a site of the first
      << Entry(<<"a">>,
               [name |-> <<"A">>, synonyms |-> << <<"c">> >>,
                admin2 |-> << Entry(<<"b">>,
                    [name |-> <<"B">>, synonyms |-> << <<"a">> >>,
                     unclassified |-> << Entry(<<"c">>,
                         [name |-> <<"C">>, synonyms |-> << <<"b">> >>]) >>]) >>]),
         Entry(<<"C", ".">>, [name |-> <<"C">>]) >>,
      \* the region has no name
      << Entry(<<"a">>,
               [admin2 |-> << Entry(<<"c">>, [name |-> <<"C">>]) >>]) >>,
      \* the district has no name
      << Entry(<<"a">>,
               [name |-> <<"A">>,
                admin2 |-> << Entry(<<"b">>,
                    [unclassified |-> << Entry(<<"c">>, [name |-> <<"C">>]) >>]) >>]) >> }

StoragePool ==
    { [p \in Paths |-> "ok"],
      [p \in Paths |-> IF p = ORG_PATH THEN "unavailable" ELSE "ok"],
      [p \in Paths |-> IF p = LOC_PATH THEN "unavailable" ELSE "ok"] }

CallNames ==
    { None, <<" ">>, <<"A">>, <<"C">>, <<" ", "c", " ", " ", ".", "d", " ">> }

ScriptIdle ==
    /\ pc = "library"
    /\ activities = <<>>
    /\ index = EmptyMap
    /\ output = <<>>
    /\ stderr = <<>>

CachesEmpty ==
    /\ datasets_loaded = EmptyMap
    /\ lookup_tables_loaded = EmptyMap
    /\ location_lookup_table = NotBuilt
    /\ stamps = EmptyMap
    /\ calls = <<>>
    /\ reads = EmptyMap
    /\ builds = EmptyMap

Init ==
    /\ ScriptIdle
    /\ CachesEmpty
    /\ orgMap \in OrgMapsSmall
    /\ locMap \in LocMapsSmall
    /\ storage \in StoragePool

Next ==
    \/ \E path \in Paths : CallGetDataset(path)
    \/ \E path \in Paths : CallGetLookupTable(path)
    \/ \E name \in CallNames : CallLookupOrg(name)
    \/ CallGetLocationLookupTable
    \/ \E name \in CallNames : \E loctype \in {"unclassified", "admin1"} :
           CallLookupLocation(name, loctype)

Spec == Init /\ [][Next]_vars

(***************************************************************************)
(* Table construction over all small datasets                              *)
(***************************************************************************)
KeyPool == { <<"a">>, <<"A", "-">>, <<"b">> }

OptionalName == { <<>> } \cup { [name |-> n] : n \in KeyPool }
OptionalSynonyms == { <<>> } \cup { [synonyms |-> <<n>>] : n \in KeyPool }

Merge(f, g) == [x \in (DOMAIN f) \cup (DOMAIN g) |-> IF x \in DOMAIN f THEN f[x] ELSE g[x]]

GenOrgMaps ==
    { << Entry(k1, Merge(n1, s1)), Entry(k2, Merge(n2, s2)) >> :
        k1 \in KeyPool, k2 \in KeyPool, n1 \in OptionalName, n2 \in OptionalName,
        s1 \in OptionalSynonyms, s2 \in OptionalSynonyms }

WithName(present, name, fields) ==
    IF present THEN Merge([name |-> name], fields) ELSE fields

GenLocMaps ==
    { << Entry(k1, WithName(shape # "region", <<"R", "1">>,
             [synonyms |-> <<s1>>,
              admin2 |-> << Entry(k2, WithName(shape # "district", <<"D", "1">>,
                  [synonyms |-> <<s2>>,
                   unclassified |-> << Entry(k3, [name |-> <<"S", "1">>,
                                                  synonyms |-> <<s3>>]) >>])) >>])),
         Entry(k4, [name |-> <<"R", "2">>]) >> :
        k1 \in KeyPool, k2 \in KeyPool, k3 \in KeyPool, k4 \in KeyPool,
        s1 \in KeyPool, s2 \in KeyPool, s3 \in KeyPool,
        shape \in {"full", "region", "district"} }

\* a JSON object holds each key once
DistinctKeys(map) ==
    \A i, j \in 1..Len(map) : map[i].key = map[j].key => i = j

TablesIdle ==
    /\ activities = <<>>
    /\ index = EmptyMap
    /\ output = <<>>
    /\ stderr = <<>>
    /\ CachesEmpty
    /\ storage = [p \in Paths |-> "ok"]

InitOrgTable ==
    /\ pc = "org-table"
    /\ TablesIdle
    /\ orgMap \in GenOrgMaps
    /\ DistinctKeys(orgMap)
    /\ locMap = <<>>

NextOrgTable ==
    \/ CallGetLookupTable(ORG_PATH)
    \/ \E name \in KeyPool : CallLookupOrg(name)

SpecOrgTable == InitOrgTable /\ [][NextOrgTable]_vars

InitLocTable ==
    /\ pc = "location-table"
    /\ TablesIdle
    /\ locMap \in GenLocMaps
    /\ DistinctKeys(locMap)
    /\ orgMap = <<>>

NextLocTable ==
    \/ CallGetLocationLookupTable
    \/ \E name \in KeyPool : CallLookupLocation(name, "unclassified")

SpecLocTable == InitLocTable /\ [][NextLocTable]_vars

(***************************************************************************)
(* Inputs of the index builder                                             *)
(***************************************************************************)
LocationsPool ==
    { EmptyMap,
      [admin1 |-> << <<" ", "a", " ">>, <<"a">> >>],
      [admin1 |-> << <<"A">>, <<"a", " ", " ", "b", " ">> >>,
       admin2 |-> << None, <<>>, <<"a", " ", "b">> >>],
      [admin2 |-> << <<"a">>, <<"a">> >>, region |-> << <<"c">> >>],
      [unclassified |-> << <<" ">>, <<"a">> >>] }

PayloadPool ==
    { [orgs |-> EmptyMap, sectors |-> EmptyMap],
      [orgs |-> [implementing |-> << <<"a">> >>],
       sectors |-> [dac |-> << <<"b">>, <<>> >>]],
      [orgs |-> [implementing |-> << <<"a">>, <<" ", "a">> >>,
                 funding |-> << <<"a">>, <<"B">>, None >>,
                 accountable |-> << <<"c">> >>],
       sectors |-> [humanitarian |-> << <<"b", " ">>, <<"b">> >>,
                    dac |-> << <<"\t">> >>]],
      [orgs |-> [programming |-> << <<" ">>, <<>>, <<"B">> >>],
       sectors |-> [other |-> << <<"c">> >>]] }

ActivityPool ==
    { [identifier |-> id, title |-> "title", source |-> "source",
       locations |-> l, orgs |-> p.orgs, sectors |-> p.sectors] :
      id \in {"id1", "id2"}, l \in LocationsPool, p \in PayloadPool }

\* the script makes no call into the lookup functions of iati3w_common
LibIdle ==
    /\ orgMap = <<>>
    /\ locMap = <<>>
    /\ storage = EmptyMap
    /\ CachesEmpty

InitIndex ==
    /\ pc = "start"
    /\ activities = <<>>
    /\ index = EmptyMap
    /\ output = <<>>
    /\ stderr = <<>>
    /\ LibIdle

\* if len(sys.argv) != 2: print usage on stderr; sys.exit(2)
CheckUsage(argc) ==
    /\ pc = "start"
    /\ IF argc # 2
       THEN /\ pc' = "exit2"
            /\ stderr' = Append(stderr, <<"Usage">>)
       ELSE /\ pc' = "loop"
            /\ UNCHANGED stderr
    /\ UNCHANGED <<activities, index, output, envVars, libVars>>

\* one iteration of "for activity in activities"
ProcessActivity(activity) ==
    /\ pc = "loop"
    /\ Len(activities) < MaxActivities
    /\ activities' = Append(activities, activity)
    /\ index' = AddLocTypes(index, activity, LOCATION_TYPES)
    /\ UNCHANGED <<pc, output, stderr, envVars, libVars>>

\* the loop is over: print(json.dumps(index, indent=4))
DumpIndex ==
    /\ pc = "loop"
    /\ pc' = "done"
    /\ output' = Append(output, index)
    /\ UNCHANGED <<activities, index, stderr, envVars, libVars>>

NextIndex ==
    \/ \E argc \in 1..3 : CheckUsage(argc)
    \/ \E activity \in ActivityPool : ProcessActivity(activity)
    \/ DumpIndex

SpecIndex == InitIndex /\ [][NextIndex]_vars

(***************************************************************************)
(* Vocabulary of the claims about the index                                *)
(***************************************************************************)

\* blank: absent, empty, or consisting only of whitespace
Blank(raw) == raw = None \/ \A i \in 1..Len(raw) : raw[i] \in SpaceChars

\* k is raw without its leading and trailing whitespace, otherwise unchanged
IsTrimOf(k, raw) ==
    /\ raw # None
    /\ \E i \in 0..Len(raw) : \E j \in i..Len(raw) :
          /\ k = SubSeq(raw, i + 1, j)
          /\ \A n \in 1..i : raw[n] \in SpaceChars
          /\ \A n \in (j + 1)..Len(raw) : raw[n] \in SpaceChars
          /\ k # <<>> => (k[1] \notin SpaceChars /\ k[Len(k)] \notin SpaceChars)

\* the raw strings the consumed activities list under key T of field f
RawList(a, f, T) == Get(a[f], T, <<>>)
RawLocations(T) ==
    UNION { Range(RawList(activities[n], "locations", T)) : n \in 1..Len(activities) }

\* occurrences (position j) in a list of non-blank raw strings that trim to k
Occurrences(list, k) ==
    { j \in 1..Len(list) : ~Blank(list[j]) /\ IsTrimOf(k, list[j]) }

\* the tuples (activity, location occurrence, role, org occurrence) of claim C1
OrgTuples(T, L, O) ==
    UNION { UNION { UNION {
        { <<n, j, R, m>> :
            m \in Occurrences(RawList(activities[n], "orgs", R), O) } :
          R \in Range(ROLES) } :
        j \in Occurrences(RawList(activities[n], "locations", T), L) } :
      n \in 1..Len(activities) }

\* C1: in every index entry (T, L), orgs[O] is the number of tuples (activity,
\* occurrence of a non-blank raw location of type T trimming to L, recognized
\* role, occurrence of a non-blank raw org under that role trimming to O).
C1_OrgCounts ==
    \A T \in DOMAIN index : \A L \in DOMAIN index[T] :
        \A O \in DOMAIN index[T][L].orgs :
            index[T][L].orgs[O] = Cardinality(OrgTuples(T, L, O))

\* C2: run on an empty activity list, the printed index has every location
\* type of LOCATION_TYPES as a key, mapped to an empty mapping.
C2_EmptyInputHasAllTypes ==
    (pc = "done" /\ activities = <<>>) =>
        \A T \in Range(LOCATION_TYPES) :
            T \in DOMAIN output[1] /\ DOMAIN output[1][T] = {}

\* C3: blank raw strings (absent, empty or whitespace-only) create no entry and
\* increment no counter: every location, org and sector key is the trimmed
\* value of a non-blank raw string, and none is the empty string.
C3_BlankSkipped ==
    \A T \in DOMAIN index : \A L \in DOMAIN index[T] :
        /\ L # <<>>
        /\ \E raw \in RawLocations(T) : ~Blank(raw) /\ IsTrimOf(L, raw)
        /\ <<>> \notin DOMAIN index[T][L].orgs
        /\ \A st \in DOMAIN index[T][L].sectors :
               <<>> \notin DOMAIN index[T][L].sectors[st]

\* the items claim C9 expects in entry (T, L): one per occurrence, in input order
RECURSIVE ItemsOfList(_, _, _)
ItemsOfList(item, list, L) ==
    IF list = <<>> THEN <<>>
    ELSE (IF ~Blank(Head(list)) /\ IsTrimOf(L, Head(list)) THEN <<item>> ELSE <<>>)
         \o ItemsOfList(item, Tail(list), L)

RECURSIVE ExpectedItems(_, _, _)
ExpectedItems(acts, T, L) ==
    IF acts = <<>> THEN <<>>
    ELSE ItemsOfList([identifier |-> Head(acts).identifier,
                      title |-> Head(acts).title,
                      source |-> Head(acts).source],
                     RawList(Head(acts), "locations", T), L)
         \o ExpectedItems(Tail(acts), T, L)

\* C9: the activities list of every entry (T, L) holds exactly one item per
\* occurrence of a non-blank raw location of type T trimming to L, in input
\* order, without dedup; every entry has at least one activity.
C9_ActivitiesInOrder ==
    \A T \in DOMAIN index : \A L \in DOMAIN index[T] :
        /\ index[T][L].activities = ExpectedItems(activities, T, L)
        /\ Len(index[T][L].activities) >= 1

\* C8: the keys of index[T] are trimmed raw strings, not tokens: every key is
\* the trimmed value of some raw location of type T, and the non-blank raw
\* locations of type T fill exactly one bucket per distinct trimmed value.
C8_KeysTrimmedRaw ==
    \A T \in Range(LOCATION_TYPES) :
        LET keys == IF T \in DOMAIN index THEN DOMAIN index[T] ELSE {} IN
        /\ \A k \in keys : \E raw \in RawLocations(T) : IsTrimOf(k, raw)
        /\ \A raw \in RawLocations(T) :
               ~Blank(raw) => \E k \in keys : IsTrimOf(k, raw)
        /\ \A k1, k2 \in keys \ {<<>>} :
               (\E raw \in RawLocations(T) : IsTrimOf(k1, raw) /\ IsTrimOf(k2, raw))
                   => k1 = k2

\* two spellings of one token sit in separate buckets, and a padded raw string
\* was indexed under its trimmed value
C8_Witness ==
    /\ "admin1" \in DOMAIN index
    /\ {<<"a">>, <<"A">>, <<"a", " ", " ", "b">>} \subseteq DOMAIN index["admin1"]
    /\ <<" ", "a", " ">> \in RawLocations("admin1")
    /\ make_token(<<"A">>) = make_token(<<"a">>)

(***************************************************************************)
(* Vocabulary of the claims about the lookup tables                        *)
(***************************************************************************)
Synonyms(info) == Get(info, "synonyms", <<>>)
Districts(r) == Get(locMap[r].info, "admin2", <<>>)
Sites(r, d) == Get(Districts(r)[d].info, "unclassified", <<>>)

MinOf(S) == CHOOSE x \in S : \A y \in S : x <= y
MaxOf(S) == CHOOSE x \in S : \A y \in S : y <= x

\* One insertion of the location table's construction order: region key, then
\* its districts, each followed by its sites (each followed by its synonyms) and
\* then by the district's synonyms, then the region's synonyms.  at is the
\* position in that order.
Insertion(name, ref, at, kind) ==
    [tok |-> make_token(name), ref |-> ref, at |-> at, kind |-> kind]

SiteInsertions(r, d) ==
    UNION { {Insertion(Sites(r, d)[k].key, <<r, d, k>>,
                       r * 1000 + d * 100 + k * 10, "site")}
            \cup { Insertion(Synonyms(Sites(r, d)[k].info)[j], <<r, d, k>>,
                             r * 1000 + d * 100 + k * 10 + j, "synonym") :
                   j \in 1..Len(Synonyms(Sites(r, d)[k].info)) } :
            k \in 1..Len(Sites(r, d)) }

DistrictInsertions(r) ==
    UNION { {Insertion(Districts(r)[d].key, <<r, d>>, r * 1000 + d * 100, "district")}
            \cup SiteInsertions(r, d)
            \cup { Insertion(Synonyms(Districts(r)[d].info)[j], <<r, d>>,
                             r * 1000 + d * 100 + 90 + j, "synonym") :
                   j \in 1..Len(Synonyms(Districts(r)[d].info)) } :
            d \in 1..Len(Districts(r)) }

Insertions ==
    UNION { {Insertion(locMap[r].key, <<r>>, r * 1000, "region")}
            \cup DistrictInsertions(r)
            \cup { Insertion(Synonyms(locMap[r].info)[j], <<r>>,
                             r * 1000 + 900 + j, "synonym") :
                   j \in 1..Len(Synonyms(locMap[r].info)) } :
            r \in 1..Len(locMap) }

\* the positions at which the construction stops: an entry whose parent has no name
StopPoints ==
    UNION { { r * 1000 + d * 100 :
                d \in {x \in 1..Len(Districts(r)) : "name" \notin DOMAIN locMap[r].info} }
            \cup UNION { { r * 1000 + d * 100 + k * 10 :
                             k \in {x \in 1..Len(Sites(r, d)) :
                                      "name" \notin DOMAIN Districts(r)[d].info} } :
                         d \in 1..Len(Districts(r)) } :
            r \in 1..Len(locMap) }

\* the insertions a construction carries out before it ends
Inserted ==
    IF storage[LOC_PATH] # "ok" THEN {}
    ELSE { c \in Insertions : \A f \in StopPoints : c.at < f }

Earlier(c) == { e \in Inserted : e.tok = c.tok /\ e.at < c.at }
LaterRegionKeys(c) ==
    { g \in Inserted : g.kind = "region" /\ g.tok = c.tok /\ g.at > c.at }

WithPosition(S, at) == CHOOSE e \in S : e.at = at

\* the mapping the token of c has when c is inserted: the last region key before
\* it, or else the first insertion of that token
MappingAt(c) ==
    LET regions == { e \in Earlier(c) : e.kind = "region" } IN
    IF regions # {}
    THEN WithPosition(regions, MaxOf({e.at : e \in regions})).ref
    ELSE WithPosition(Earlier(c), MinOf({e.at : e \in Earlier(c)})).ref

\* district keys, site keys and synonyms whose token was inserted earlier
Colliding == { c \in Inserted : c.kind # "region" /\ Earlier(c) # {} }

LocTable == location_lookup_table[1]

Resolutions(fn) ==
    { i \in 1..Len(calls) :
        calls[i].fn = fn /\ calls[i].ret.kind \in {"entry", "fallback"} }

\* C4 (as stated): when a district key, site key or synonym tokenizes to a token
\* inserted earlier in the construction order, the earlier mapping is kept, so
\* resolve_location on that name returns the earlier-inserted entry.
C4_FirstWriterWins ==
    location_lookup_table # NotBuilt =>
        \A c \in Colliding :
            /\ c.tok \in DOMAIN LocTable
            /\ LocTable[c.tok] = MappingAt(c)
            /\ \A i \in Resolutions("lookup_location") :
                   make_token(calls[i].arg) = c.tok
                       => calls[i].ret = RetEntry(MappingAt(c))

\* what the token of c maps to in the end
FinalMapping(c) ==
    IF LaterRegionKeys(c) # {}
    THEN WithPosition(LaterRegionKeys(c),
                      MaxOf({g.at : g \in LaterRegionKeys(c)})).ref
    ELSE MappingAt(c)

\* C4 (amended): the earlier mapping is kept by every district key, site key and
\* synonym; only the key of a later region, which is inserted unconditionally,
\* replaces it.  resolve_location returns the earlier-inserted entry unless a
\* later region key has the same token, and then the last such region.
C4_FirstWriterWinsExceptRegionKeys ==
    location_lookup_table # NotBuilt =>
        /\ DOMAIN LocTable = { c.tok : c \in Inserted }
        /\ \A c \in Colliding :
            /\ LocTable[c.tok] = FinalMapping(c)
            /\ \A i \in Resolutions("lookup_location") :
                   make_token(calls[i].arg) = c.tok
                       => calls[i].ret = RetEntry(FinalMapping(c))

\* a site name with the token of an earlier district or region was resolved to
\* that earlier entry, not to the site
C4_Witness ==
    /\ location_lookup_table # NotBuilt
    /\ \E c \in Colliding : \E i \in Resolutions("lookup_location") :
           /\ c.kind = "site"
           /\ LaterRegionKeys(c) = {}
           /\ make_token(calls[i].arg) = c.tok
           /\ Len(MappingAt(c)) < 3
           /\ calls[i].ret = RetEntry(MappingAt(c))

KeyIndexes(map, tok) == { j \in 1..Len(map) : make_token(map[j].key) = tok }

\* C5 (as stated): in a table built by get_lookup_table, the token of every
\* top-level key maps to the entry stored under that key, whatever other keys,
\* names or synonyms have the same token.
C5_KeyMapsToOwnEntry ==
    \A path \in DOMAIN lookup_tables_loaded :
        LET map == FileContent(path)
            t == lookup_tables_loaded[path]
        IN  \A i \in 1..Len(map) :
                /\ make_token(map[i].key) \in DOMAIN t
                /\ t[make_token(map[i].key)] = <<i>>

\* C5 (amended): the token of every top-level key maps to the entry of the last
\* top-level key with that token: to the key's own entry whenever no later key
\* has its token, whatever names or synonyms have it.
C5_LastKeyOfTokenWins ==
    \A path \in DOMAIN lookup_tables_loaded :
        LET map == FileContent(path)
            t == lookup_tables_loaded[path]
        IN  \A i \in 1..Len(map) :
                /\ make_token(map[i].key) \in DOMAIN t
                /\ t[make_token(map[i].key)] =
                       <<MaxOf(KeyIndexes(map, make_token(map[i].key)))>>

\* a key whose token an earlier entry's name or synonym had already inserted
\* maps to its own entry
C5_Witness ==
    /\ ORG_PATH \in DOMAIN lookup_tables_loaded
    /\ \E i \in 1..Len(orgMap) : \E j \in 1..(i - 1) :
           LET tok == make_token(orgMap[i].key) IN
           /\ KeyIndexes(orgMap, tok) = {i}
           /\ \/ "name" \in DOMAIN orgMap[j].info /\ make_token(orgMap[j].info.name) = tok
              \/ \E n \in Range(Synonyms(orgMap[j].info)) : make_token(n) = tok
           /\ lookup_tables_loaded[ORG_PATH][tok] = <<i>>

\* the calls that need the location table
NeedsLocationTable(call) ==
    \/ call.fn = "get_location_lookup_table"
    \/ call.fn = "lookup_location" /\ ~Blank(call.arg)

OrgTokens ==
    UNION { {make_token(orgMap[i].key)}
            \cup (IF "name" \in DOMAIN orgMap[i].info
                  THEN {make_token(orgMap[i].info.name)} ELSE {})
            \cup { make_token(n) : n \in Range(Synonyms(orgMap[i].info)) } :
            i \in 1..Len(orgMap) }

\* a resolve_org call with a non-blank name whose token the table does not hold
IsMiss(call) ==
    /\ call.fn = "lookup_org"
    /\ ~Blank(call.arg)
    /\ storage[ORG_PATH] = "ok"
    /\ make_token(call.arg) \notin OrgTokens

RECURSIVE Diagnostics(_)
Diagnostics(cs) ==
    IF cs = <<>> THEN <<>>
    ELSE (IF IsMiss(Head(cs))
          THEN << <<"Failed lookup", make_token(Head(cs).arg)>> >> ELSE <<>>)
         \o Diagnostics(Tail(cs))

\* C7: every missing resolve_org call returns {name: normalize(name), scope:
\* "unknown"} and emits exactly one diagnostic line with the token; no other call
\* emits one; a miss is not cached and leaves the table unchanged.
C7_MissReportedNotCached ==
    /\ \A i \in 1..Len(calls) :
           calls[i].fn = "lookup_org" =>
               /\ IsMiss(calls[i]) =>
                      calls[i].ret = RetFallback(normalise_string(calls[i].arg), "unknown")
               /\ Blank(calls[i].arg) => calls[i].ret = RetNone
               /\ ~IsMiss(calls[i]) => calls[i].ret.kind \in {"None", "entry", "raise"}
    /\ stderr = Diagnostics(calls)
    /\ ORG_PATH \in DOMAIN lookup_tables_loaded =>
           DOMAIN lookup_tables_loaded[ORG_PATH] = OrgTokens

\* the same unknown name was looked up twice and reported twice
C7_Witness ==
    /\ Len(calls) >= 2
    /\ IsMiss(calls[1]) /\ IsMiss(calls[2])
    /\ calls[1].arg = calls[2].arg
    /\ normalise_string(calls[1].arg) # calls[1].arg
    /\ Len(stderr) = 2

\* a call during which the construction of the location table failed
LocationBuildFailed(call) ==
    /\ call.fn \in {"lookup_location", "get_location_lookup_table"}
    /\ call.ret.kind = "raise"

LocationTableComplete ==
    /\ location_lookup_table # NotBuilt
    /\ DOMAIN LocTable = { c.tok : c \in Insertions }

\* C10: when the construction of the location table fails part-way, the cache is
\* left unbuilt: no later resolve_location call returns a result computed from an
\* empty or partial table (it fails again, or rebuilds the full table).
C10_FailedBuildLeavesCacheUnbuilt ==
    \A i \in 1..Len(calls) :
        LocationBuildFailed(calls[i]) =>
            /\ location_lookup_table = NotBuilt \/ LocationTableComplete
            /\ \A j \in (i + 1)..Len(calls) :
                   (calls[j].fn = "lookup_location" /\ ~Blank(calls[j].arg))
                       => (calls[j].ret.kind = "raise" \/ LocationTableComplete)

====
